---- MODULE Spec2Model ----
(***************************************************************************)
(* Model of node.RemoteNode (src/node/remotenode.go) and of the            *)
(* middlewareStore (src/node/middleware.go): the frame codec (readBuf,     *)
(* handleMsgBuf), the receive, transmit and dispatch loops, Start/Stop,    *)
(* the send API and the hook registry.                                     *)
(***************************************************************************)
EXTENDS Integers, Sequences, FiniteSets, TLC

VARIABLES
    intBits,     \* width of Go's int on the build: 32 or 64
    crashed,     \* an unrecovered panic ended the process
    inFlight,    \* bytes the peer wrote that have not arrived yet
    connIn,      \* bytes that arrived and conn.Read has not returned yet
    connOut,     \* bytes written to conn by the transmit loop
    closeCount,  \* number of conn.Close() calls
    peerSent,    \* what the peer put on the wire: the list of wire items
    rxBuf,       \* rn.rxBuf: [buf |-> bytes, len |-> int]
    rxArg,       \* the buf argument of the readBuf invocation in progress
    handled,     \* history: the buffers handed to handleMsgBuf, in order
    rxMsgChan,   \* rn.rxMsgChan
    txMsgChan,   \* rn.txMsgChan
    startOnce,   \* rn.StartOnce: "idle", "running" or "done"
    stopOnce,    \* rn.StopOnce:  "idle", "running" or "done"
    isStopped,   \* rn.IsStopped()
    stopRuns,    \* history: number of executions of Stop's body
    stopCause,   \* history: the cause the executed Stop body logged
    spawned,     \* history: goroutine name -> number of times spawned
    pc,          \* position of every goroutine / caller
    ret,         \* where a goroutine continues after its Stop call returns
    cause,       \* the cause a goroutine passes to its Stop call
    ioErr,       \* history: goroutine -> a stream operation of its failed
    store,       \* rn.LocalNode.middlewareStore: category -> list of callbacks
    discIter,    \* Stop's range over remoteNodeDisconnected: [list, idx]
    readyIter,   \* Start's range over remoteNodeReady: [list, idx]
    hookLog,     \* history: category -> the calls made, [f, res] each
    idleTimer,   \* handleMsg's keepAliveTimeoutTimer: ticks left, 0 fired, -1 off
    kaTimer,     \* tx's keepAliveTimer: ticks left, 0 fired, -1 off
    waitTimer,   \* caller -> time.After(replyTimeout) of its SendMessageSync
    replyChans,  \* LocalNode's reply slots: message id -> [holder, call] or NoSlot
    box,         \* caller -> its reply channel: "none", "empty" or "filled"
    lnChan,      \* LocalNode's delivery queues: routing type -> queue
    nodeSet,     \* rn.Node.Node has been set (line 115)
    op,          \* caller -> the send call in progress: [kind, msg]
    sendRes,     \* caller -> what its last send call returned
    calls,       \* caller -> number of send calls made
    txCur,       \* tx's msg: the envelope being written
    hmRearmed,   \* history: the idle timer was reset since handleMsg last
                 \* took an envelope
    mwLock,      \* middlewareStore's RWMutex: "free" or "w" (write-locked)
    regArg,      \* the argument f of the ApplyMiddleware call in progress
    regErr,      \* what the last ApplyMiddleware call returned
    regCount,    \* number of ApplyMiddleware calls made
    hmTook,      \* history: the envelopes handleMsg took from rxMsgChan, in order
    enqueued     \* history: the envelopes put on txMsgChan, in order

buildVars == <<intBits, crashed>>
connVars  == <<inFlight, connIn, connOut, closeCount, peerSent>>
codecVars == <<rxBuf, rxArg, handled>>
chanVars  == <<rxMsgChan, txMsgChan>>
lifeVars  == <<startOnce, stopOnce, isStopped, stopRuns, stopCause, spawned>>
ctlVars   == <<pc, ret, cause, ioErr>>
hookVars  == <<store, discIter, readyIter, hookLog>>
timerVars == <<idleTimer, kaTimer, waitTimer>>
nodeVars  == <<replyChans, box, lnChan, nodeSet>>
sendVars  == <<op, sendRes, calls, txCur, hmRearmed>>
regVars   == <<mwLock, regArg, regErr, regCount>>
fifoVars  == <<hmTook, enqueued>>
vars == <<buildVars, connVars, codecVars, chanVars, lifeVars, ctlVars, hookVars,
          timerVars, nodeVars, sendVars, regVars, fifoVars>>

-----------------------------------------------------------------------------
(* Bounds of the model *)

\* capacity of rn.rxMsgChan in the model (remoteRxMsgChanLen, scaled down)
RxChanCap == 2
\* capacity of rn.txMsgChan in the model (remoteTxMsgChanLen, scaled down)
TxChanCap == 2
\* most wire items (frames or bad headers) the peer sends
MaxItems == 2
\* most callbacks registered in one category
MaxHooks == 2
\* capacity of each delivery queue of the LocalNode in the model
LnChanCap == 1
\* bytes conn.Write accepts before it blocks (the peer is not reading)
SendBufCap == 12
\* send calls one caller makes
MaxCalls == 1
\* ApplyMiddleware calls the registering caller makes
MaxRegs == 2
\* keepAliveTimeout, keepAliveInterval and replyTimeout in ticks of the
\* model's clock
IdleTimeoutTicks == 2
KeepAliveTicks == 1
ReplyTimeoutTicks == 1

-----------------------------------------------------------------------------
(* Go's int and the wire encoding of the frame length *)

msgLenBytes == 4

MaxInt32 == 2147483647
MinInt32 == -2147483647 - 1

\* A Go int is kept as its residue modulo 2^32 in MinInt32..MaxInt32. On a
\* 32-bit build that is the int itself. On a 64-bit build every int the codec
\* holds lies in 0..2^32-1, and a negative residue r stands for r + 2^32.
IntIsNegative(r) == intBits = 32 /\ r < 0

\* a < b for two ints
IntLess(a, b) ==
    IF intBits = 32 \/ (a < 0) = (b < 0) THEN a < b ELSE b < 0

\* a - n for an int a and 0 <= n <= MaxInt32, wrapping modulo 2^32
IntSub(a, n) ==
    IF a < MinInt32 + n THEN (((a + MaxInt32) - n) + MaxInt32) + 2 ELSE a - n

\* int(binary.BigEndian.Uint32(b)) for a 4-byte b
BigEndianUint32(b) ==
    (IF b[1] >= 128 THEN b[1] - 256 ELSE b[1]) * 16777216
        + b[2] * 65536 + b[3] * 256 + b[4]

\* binary.BigEndian.PutUint32(msgLenBuf, uint32(n)) for 0 <= n <= MaxInt32
PutUint32(n) ==
    << n \div 16777216, (n \div 65536) % 256, (n \div 256) % 256, n % 256 >>

Take(s, n) == SubSeq(s, 1, n)
Drop(s, n) == SubSeq(s, n + 1, Len(s))

-----------------------------------------------------------------------------
(* Message envelopes and their serialisation (proto.Marshal/Unmarshal of   *)
(* protobuf.Message, proto3): field 1 is RoutingType, field 2 MessageId,   *)
(* each written as a tag byte and a value byte and left out when zero.     *)

RoutingTypes == {0, 1, 7}
MessageIds == {0, 1, 2}
Messages == [RoutingType : RoutingTypes, MessageId : MessageIds]

\* a protobuf field key: (field number << 3) | wire type, wire type 0 = varint
FieldKey(field) == field * 8 + 0
TagRoutingType == FieldKey(1)
TagMessageId == FieldKey(2)

Marshal(m) ==
    (IF m.RoutingType = 0 THEN <<>> ELSE <<TagRoutingType, m.RoutingType>>)
        \o (IF m.MessageId = 0 THEN <<>> ELSE <<TagMessageId, m.MessageId>>)

RECURSIVE UnmarshalInto(_, _)
UnmarshalInto(buf, m) ==
    IF buf = <<>> THEN [ok |-> TRUE, msg |-> m]
    ELSE IF Len(buf) < 2 THEN [ok |-> FALSE, msg |-> m]
    ELSE IF buf[1] = TagRoutingType
        THEN UnmarshalInto(Drop(buf, 2), [m EXCEPT !.RoutingType = buf[2]])
    ELSE IF buf[1] = TagMessageId
        THEN UnmarshalInto(Drop(buf, 2), [m EXCEPT !.MessageId = buf[2]])
    ELSE [ok |-> FALSE, msg |-> m]

Unmarshal(buf) == UnmarshalInto(buf, [RoutingType |-> 0, MessageId |-> 0])

-----------------------------------------------------------------------------
(* The codec: one invocation of readBuf, the recursion being the caller's  *)
(* next invocation on `rest`.                                              *)

\* what one readBuf invocation does: the new rxBuf, the buffers it handed to
\* handleMsgBuf, the argument of its recursive call (again = TRUE), whether it
\* returned the length error, whether a slice expression panicked
ReadBufResult(rb, out, rest, again, err, panic) ==
    [rxBuf |-> rb, out |-> out, rest |-> rest, again |-> again,
     err |-> err, panic |-> panic]

\* lines 230-245: the body part, buf being what is left after the header
ReadBufBody(rb, buf) ==
    LET msgLen == rb.len IN
    IF Len(buf) = msgLen THEN
        ReadBufResult([buf |-> <<>>, len |-> 0], <<buf>>, <<>>, FALSE, FALSE, FALSE)
    ELSE IF IntLess(Len(buf), msgLen) THEN
        ReadBufResult([buf |-> rb.buf \o buf, len |-> IntSub(msgLen, Len(buf))],
                      <<>>, <<>>, FALSE, FALSE, FALSE)
    ELSE IF msgLen < 0 THEN
        \* buf[0:msgLen] with a negative bound: slice bounds out of range
        ReadBufResult(rb, <<>>, <<>>, FALSE, FALSE, TRUE)
    ELSE
        ReadBufResult([buf |-> <<>>, len |-> 0], <<Take(buf, msgLen)>>,
                      Drop(buf, msgLen), TRUE, FALSE, FALSE)

\* lines 209-246
ReadBufStep(rb, buf) ==
    IF Len(buf) = 0 THEN ReadBufResult(rb, <<>>, <<>>, FALSE, FALSE, FALSE)
    ELSE IF rb.len = 0 THEN
        LET length == msgLenBytes - Len(rb.buf) IN
        IF length > Len(buf) THEN
            ReadBufResult([rb EXCEPT !.buf = rb.buf \o buf],
                          <<>>, <<>>, FALSE, FALSE, FALSE)
        ELSE
            LET hdr == rb.buf \o Take(buf, length)
                rb2 == [buf |-> hdr, len |-> BigEndianUint32(hdr)]
            IN IF IntIsNegative(rb2.len)
               THEN ReadBufResult(rb2, <<>>, <<>>, FALSE, TRUE, FALSE)
               ELSE ReadBufBody(rb2, Drop(buf, length))
    ELSE ReadBufBody(rb, buf)

\* lines 193-206: the queue after handleMsgBuf(buf)
HandleMsgBuf(chan, buf) ==
    LET u == Unmarshal(buf) IN
    IF ~u.ok THEN chan
    ELSE IF Len(chan) < RxChanCap THEN Append(chan, u.msg)
    ELSE chan

RECURSIVE HandleAll(_, _)
HandleAll(chan, bufs) ==
    IF bufs = <<>> THEN chan
    ELSE HandleAll(HandleMsgBuf(chan, Head(bufs)), Tail(bufs))

-----------------------------------------------------------------------------
(* What the peer may put on the wire *)

\* frame bodies: three serialised envelopes and one truncated serialisation
Bodies == { <<>>, <<TagMessageId, 1>>,
            <<TagRoutingType, 7, TagMessageId, 2>>, <<TagRoutingType>> }

\* a header whose length is negative as a signed 32-bit integer
BadHeader == <<128, 0, 0, 0>>

Frame(body) == PutUint32(Len(body)) \o body

\* a wire item: a valid frame, or the bad header followed by some bytes
Items == [bad : {FALSE}, body : Bodies] \cup [bad : {TRUE}, body : {<<>>, <<5>>}]

ItemBytes(it) == IF it.bad THEN BadHeader \o it.body ELSE Frame(it.body)

RECURSIVE Wire(_)
Wire(items) ==
    IF items = <<>> THEN <<>> ELSE ItemBytes(Head(items)) \o Wire(Tail(items))

ItemSeqs == UNION { [1..n -> Items] : n \in 0..MaxItems }

ValidItems(items) == \A i \in 1..Len(items) : ~items[i].bad

BodiesOf(items) == [i \in 1..Len(items) |-> items[i].body]

-----------------------------------------------------------------------------
(* The hook registry *)

Categories == {"localNodeWillStart", "localNodeStarted", "remoteNodeConnected",
               "remoteNodeReady", "remoteNodeDisconnected"}

\* the callbacks a caller may register, told apart by a number
Callbacks == 1..MaxHooks

NoIter == [list |-> <<>>, idx |-> 0]

\* the routing types LocalNode.GetRxMsgChan has a queue for
KnownRoutingTypes == {0, 1}

NoMsg == [RoutingType |-> 0, MessageId |-> 0]
NoOp == [kind |-> "none", msg |-> NoMsg]
NoSlot == [holder |-> "none", call |-> 0]

\* a timer that is not running and has not fired
TimerOff == -1

-----------------------------------------------------------------------------
(* Goroutines and callers *)

\* a1, a2 call Start; e1 calls Stop from outside; rx, tx, hm (handleMsg) and
\* gn (the identity-resolution task) are the goroutines Start spawns
\* s1, s2 call the send API
Starters == {"a1", "a2"}
Spawned == {"rx", "tx", "hm", "gn"}
Senders == {"s1", "s2"}
Callers == Senders \cup {"gn"}
\* m1 calls ApplyMiddleware
Threads == Starters \cup {"e1"} \cup Spawned \cup Senders \cup {"m1"}

rxBufLen == 1024 * 16

Min(a, b) == IF a < b THEN a ELSE b

\* rn.Stop(err) called by goroutine t, which continues at `after`
CallStop(t, err, after) ==
    /\ pc' = [pc EXCEPT ![t] = "stop_call"]
    /\ ret' = [ret EXCEPT ![t] = after]
    /\ cause' = [cause EXCEPT ![t] = err]

-----------------------------------------------------------------------------
(* Stop, lines 129-149 *)

\* Stop with its body outside the Once: every caller runs it
StopEnterEveryCall(t) ==
    /\ ~crashed
    /\ UNCHANGED fifoVars
    /\ UNCHANGED regVars
    /\ UNCHANGED <<timerVars, nodeVars, sendVars>>
    /\ pc[t] = "stop_call"
    /\ stopOnce' = "running"
    /\ stopRuns' = stopRuns + 1
    /\ stopCause' = cause[t]
    /\ isStopped' = TRUE
    /\ pc' = [pc EXCEPT ![t] = "stop_close"]
    /\ UNCHANGED <<startOnce, spawned, ret, cause, ioErr>>
    /\ UNCHANGED <<buildVars, connVars, codecVars, chanVars, hookVars>>

\* lines 130-137, StopOnce.Do: the first caller runs the body, which logs the
\* cause and calls rn.LifeCycle.Stop(); a caller arriving while the body runs
\* waits for it, a later caller returns at once
StopEnter(t) ==
    /\ ~crashed
    /\ UNCHANGED fifoVars
    /\ UNCHANGED regVars
    /\ UNCHANGED <<timerVars, nodeVars, sendVars>>
    /\ pc[t] = "stop_call"
    /\ stopOnce # "running"
    /\ IF stopOnce = "idle"
       THEN /\ stopOnce' = "running"
            /\ stopRuns' = stopRuns + 1
            /\ stopCause' = cause[t]
            /\ isStopped' = TRUE
            /\ pc' = [pc EXCEPT ![t] = "stop_close"]
       ELSE /\ pc' = [pc EXCEPT ![t] = ret[t]]
            /\ UNCHANGED <<stopOnce, stopRuns, stopCause, isStopped>>
    /\ UNCHANGED <<startOnce, spawned, ret, cause, ioErr>>
    /\ UNCHANGED <<buildVars, connVars, codecVars, chanVars, hookVars>>

\* lines 139-143: conn.Close(), then the range expression is evaluated
StopClose(t) ==
    /\ ~crashed
    /\ UNCHANGED fifoVars
    /\ UNCHANGED regVars
    /\ UNCHANGED <<timerVars, nodeVars, sendVars>>
    /\ pc[t] = "stop_close"
    /\ closeCount' = closeCount + 1
    /\ LET list == store["remoteNodeDisconnected"] IN
       IF list = <<>>
       THEN /\ stopOnce' = "done"
            /\ pc' = [pc EXCEPT ![t] = ret[t]]
            /\ UNCHANGED discIter
       ELSE /\ discIter' = [list |-> list, idx |-> 1]
            /\ pc' = [pc EXCEPT ![t] = "stop_hooks"]
            /\ UNCHANGED stopOnce
    /\ UNCHANGED <<startOnce, isStopped, stopRuns, stopCause, spawned, ret, cause, ioErr>>
    /\ UNCHANGED <<buildVars, inFlight, connIn, connOut, peerSent, codecVars, chanVars>>
    /\ UNCHANGED <<store, readyIter, hookLog>>

\* lines 143-147: one callback; the loop ends on false or at the end of the list
StopHook(t) ==
    /\ ~crashed
    /\ UNCHANGED fifoVars
    /\ UNCHANGED regVars
    /\ UNCHANGED <<timerVars, nodeVars, sendVars>>
    /\ pc[t] = "stop_hooks"
    /\ \E r \in BOOLEAN :
        /\ hookLog' = [hookLog EXCEPT !["remoteNodeDisconnected"] =
                          Append(@, [f |-> discIter.list[discIter.idx], res |-> r])]
        /\ IF r /\ discIter.idx < Len(discIter.list)
           THEN /\ discIter' = [discIter EXCEPT !.idx = @ + 1]
                /\ UNCHANGED <<pc, stopOnce>>
           ELSE /\ discIter' = NoIter
                /\ stopOnce' = "done"
                /\ pc' = [pc EXCEPT ![t] = ret[t]]
    /\ UNCHANGED <<startOnce, isStopped, stopRuns, stopCause, spawned, ret, cause, ioErr>>
    /\ UNCHANGED <<buildVars, connVars, codecVars, chanVars, store, readyIter>>


-----------------------------------------------------------------------------
(* rx, lines 249-271 *)

\* lines 252-254
RxTop ==
    /\ ~crashed
    /\ UNCHANGED fifoVars
    /\ UNCHANGED regVars
    /\ UNCHANGED <<timerVars, nodeVars, sendVars>>
    /\ pc["rx"] = "rx_top"
    /\ pc' = [pc EXCEPT !["rx"] = IF isStopped THEN "done" ELSE "rx_read"]
    /\ UNCHANGED <<ret, cause, ioErr>>
    /\ UNCHANGED <<buildVars, connVars, codecVars, chanVars, lifeVars, hookVars>>

\* more of the peer's bytes arrive
PeerArrive ==
    /\ ~crashed
    /\ UNCHANGED fifoVars
    /\ UNCHANGED regVars
    /\ closeCount = 0
    /\ \E n \in 1..Len(inFlight) :
        /\ connIn' = connIn \o Take(inFlight, n)
        /\ inFlight' = Drop(inFlight, n)
    /\ UNCHANGED <<connOut, closeCount, peerSent>>
    /\ UNCHANGED <<buildVars, codecVars, chanVars, lifeVars, ctlVars, hookVars,
                   timerVars, nodeVars, sendVars>>

\* line 256 with err == nil: the read returns the bytes that have arrived,
\* as many as fit buf[0 : rxBufLen-1]
RxReadData ==
    /\ ~crashed
    /\ UNCHANGED fifoVars
    /\ UNCHANGED regVars
    /\ UNCHANGED <<timerVars, nodeVars, sendVars>>
    /\ pc["rx"] = "rx_read"
    /\ closeCount = 0
    /\ connIn # <<>>
    /\ LET n == Min(Len(connIn), rxBufLen - 1) IN
        /\ rxArg' = Take(connIn, n)
        /\ connIn' = Drop(connIn, n)
    /\ pc' = [pc EXCEPT !["rx"] = "rx_readBuf"]
    /\ UNCHANGED <<ret, cause, ioErr, inFlight, connOut, closeCount, peerSent, rxBuf, handled>>
    /\ UNCHANGED <<buildVars, chanVars, lifeVars, hookVars>>

\* rx with the end of stream only logged
RxReadEOFLogged ==
    /\ ~crashed
    /\ UNCHANGED fifoVars
    /\ UNCHANGED regVars
    /\ UNCHANGED <<timerVars, nodeVars, sendVars>>
    /\ pc["rx"] = "rx_read"
    /\ closeCount = 0
    /\ connIn = <<>>
    /\ inFlight = <<>>
    /\ pc' = [pc EXCEPT !["rx"] = "rx_top"]
    /\ ioErr' = [ioErr EXCEPT !["rx"] = TRUE]
    /\ UNCHANGED <<ret, cause>>
    /\ UNCHANGED <<buildVars, connVars, codecVars, chanVars, lifeVars, hookVars>>

\* lines 265-266: end of stream, the peer having closed after its last byte
RxReadEOF ==
    /\ ~crashed
    /\ UNCHANGED fifoVars
    /\ UNCHANGED regVars
    /\ UNCHANGED <<timerVars, nodeVars, sendVars>>
    /\ pc["rx"] = "rx_read"
    /\ closeCount = 0
    /\ connIn = <<>>
    /\ inFlight = <<>>
    /\ CallStop("rx", "Rx get io.EOF", "rx_top")
    /\ ioErr' = [ioErr EXCEPT !["rx"] = TRUE]
    /\ UNCHANGED <<buildVars, connVars, codecVars, chanVars, lifeVars, hookVars>>

\* lines 267-268: any other error; a read on the closed conn always fails
RxReadError ==
    /\ ~crashed
    /\ UNCHANGED fifoVars
    /\ UNCHANGED regVars
    /\ UNCHANGED <<timerVars, nodeVars, sendVars>>
    /\ pc["rx"] = "rx_read"
    /\ CallStop("rx", "Read connection error", "rx_top")
    /\ ioErr' = [ioErr EXCEPT !["rx"] = TRUE]
    /\ UNCHANGED <<buildVars, connVars, codecVars, chanVars, lifeVars, hookVars>>

\* lines 261-264: one invocation of readBuf; its error is only logged
RxReadBuf ==
    /\ ~crashed
    /\ UNCHANGED fifoVars
    /\ UNCHANGED regVars
    /\ UNCHANGED <<timerVars, nodeVars, sendVars>>
    /\ pc["rx"] = "rx_readBuf"
    /\ LET r == ReadBufStep(rxBuf, rxArg) IN
        /\ rxBuf' = r.rxBuf
        /\ handled' = handled \o r.out
        /\ rxMsgChan' = HandleAll(rxMsgChan, r.out)
        /\ crashed' = r.panic
        /\ rxArg' = r.rest
        /\ pc' = [pc EXCEPT !["rx"] = IF r.again THEN "rx_readBuf" ELSE "rx_top"]
    /\ UNCHANGED <<intBits, connVars, txMsgChan, lifeVars, hookVars, ret, cause, ioErr>>

-----------------------------------------------------------------------------
(* Timers: time.NewTimer, util.ResetTimer, util.StopTimer, time.After *)

Dec(x) == IF x > 0 THEN x - 1 ELSE x

\* one tick of the clock: every running timer gets one tick closer to firing
Tick ==
    /\ ~crashed
    /\ UNCHANGED fifoVars
    /\ UNCHANGED regVars
    /\ \/ idleTimer > 0
       \/ kaTimer > 0
       \/ \E t \in Callers : waitTimer[t] > 0
    /\ idleTimer' = Dec(idleTimer)
    /\ kaTimer' = Dec(kaTimer)
    /\ waitTimer' = [t \in Callers |-> Dec(waitTimer[t])]
    /\ UNCHANGED <<buildVars, connVars, codecVars, chanVars, lifeVars, ctlVars,
                   hookVars, nodeVars, sendVars>>

-----------------------------------------------------------------------------
(* The send API, lines 315-353 *)

AfterSend(t) == IF t = "gn" THEN "gn_reply" ELSE "s_idle"

\* the call of goroutine t returns r
Return(t, r) ==
    /\ sendRes' = [sendRes EXCEPT ![t] = r]
    /\ pc' = [pc EXCEPT ![t] = AfterSend(t)]

\* the envelopes callers send: all carry the same message id
SendMsgs == { m \in Messages : m.RoutingType = 0 /\ m.MessageId = 1 }

\* NewGetNodeMessage() and NewPingMessage(), their random ids fixed
GetNodeMsg == [RoutingType |-> 0, MessageId |-> 1]
PingMsg == [RoutingType |-> 0, MessageId |-> 2]

\* a caller starts SendMessageAsync(msg), SendMessageSync(msg) or
\* SendMessage(msg, true)
SenderCall(t) ==
    /\ ~crashed
    /\ UNCHANGED fifoVars
    /\ UNCHANGED regVars
    /\ pc[t] = "s_idle"
    /\ calls[t] < MaxCalls
    /\ \E kind \in {"async", "sync", "reply"}, msg \in SendMsgs :
          op' = [op EXCEPT ![t] = [kind |-> kind, msg |-> msg]]
    /\ calls' = [calls EXCEPT ![t] = @ + 1]
    /\ sendRes' = [sendRes EXCEPT ![t] = "none"]
    /\ pc' = [pc EXCEPT ![t] = "send_call"]
    /\ UNCHANGED <<ret, cause, ioErr, txCur, hmRearmed>>
    /\ UNCHANGED <<buildVars, connVars, codecVars, chanVars, lifeVars, hookVars,
                   timerVars, nodeVars>>

\* the envelope a caller of its own sends: the callers' ids differ
OwnMsg(t) == [RoutingType |-> 0, MessageId |-> IF t = "s1" THEN 1 ELSE 2]

\* a caller starts SendMessageAsync with its own envelope
SenderCallAsync(t) ==
    /\ ~crashed
    /\ UNCHANGED fifoVars
    /\ UNCHANGED regVars
    /\ pc[t] = "s_idle"
    /\ calls[t] < MaxCalls
    /\ op' = [op EXCEPT ![t] = [kind |-> "async", msg |-> OwnMsg(t)]]
    /\ calls' = [calls EXCEPT ![t] = @ + 1]
    /\ sendRes' = [sendRes EXCEPT ![t] = "none"]
    /\ pc' = [pc EXCEPT ![t] = "send_call"]
    /\ UNCHANGED <<ret, cause, ioErr, txCur, hmRearmed>>
    /\ UNCHANGED <<buildVars, connVars, codecVars, chanVars, lifeVars, hookVars,
                   timerVars, nodeVars>>

\* SendMessage with a send that does not look at the queue's capacity
SendEnqueueUnbounded(t) ==
    /\ ~crashed
    /\ UNCHANGED hmTook
    /\ UNCHANGED regVars
    /\ pc[t] = "send_call"
    /\ txMsgChan' = Append(txMsgChan, op[t].msg)
    /\ enqueued' = Append(enqueued, op[t].msg)
    /\ IF op[t].kind = "async"
       THEN Return(t, "ok")
       ELSE /\ pc' = [pc EXCEPT ![t] = "send_alloc"]
            /\ UNCHANGED sendRes
    /\ UNCHANGED <<ret, cause, ioErr, op, calls, txCur, hmRearmed, rxMsgChan>>
    /\ UNCHANGED <<buildVars, connVars, codecVars, lifeVars, hookVars,
                   timerVars, nodeVars>>

\* lines 316-320 (and 331 when hasReply is false)
SendEnqueue(t) ==
    /\ ~crashed
    /\ UNCHANGED hmTook
    /\ UNCHANGED regVars
    /\ pc[t] = "send_call"
    /\ IF Len(txMsgChan) < TxChanCap
       THEN /\ txMsgChan' = Append(txMsgChan, op[t].msg)
            /\ enqueued' = Append(enqueued, op[t].msg)
            /\ IF op[t].kind = "async"
               THEN Return(t, "ok")
               ELSE /\ pc' = [pc EXCEPT ![t] = "send_alloc"]
                    /\ UNCHANGED sendRes
       ELSE /\ Return(t, "full")
            /\ UNCHANGED <<txMsgChan, enqueued>>
    /\ UNCHANGED <<ret, cause, ioErr, op, calls, txCur, hmRearmed, rxMsgChan>>
    /\ UNCHANGED <<buildVars, connVars, codecVars, lifeVars, hookVars,
                   timerVars, nodeVars>>

\* lines 322-329, LocalNode.AllocReplyChan(msg.MessageId), and for
\* SendMessageSync the start of the wait, line 347
SendAlloc(t) ==
    /\ ~crashed
    /\ UNCHANGED fifoVars
    /\ UNCHANGED regVars
    /\ pc[t] = "send_alloc"
    /\ LET id == op[t].msg.MessageId IN
       IF replyChans[id] # NoSlot
       THEN /\ Return(t, "dup")
            /\ UNCHANGED <<replyChans, box, waitTimer>>
       ELSE /\ replyChans' = [replyChans EXCEPT
                                 ![id] = [holder |-> t, call |-> calls[t]]]
            /\ box' = [box EXCEPT ![t] = "empty"]
            /\ IF op[t].kind = "reply"
               THEN /\ Return(t, "chan")
                    /\ UNCHANGED waitTimer
               ELSE /\ pc' = [pc EXCEPT ![t] = "sync_wait"]
                    /\ waitTimer' = [waitTimer EXCEPT ![t] = ReplyTimeoutTicks]
                    /\ UNCHANGED sendRes
    /\ UNCHANGED <<ret, cause, ioErr, op, calls, txCur, hmRearmed>>
    /\ UNCHANGED <<idleTimer, kaTimer, lnChan, nodeSet>>
    /\ UNCHANGED <<buildVars, connVars, codecVars, chanVars, lifeVars, hookVars>>

\* lines 348-349: the reply arrived
SyncReply(t) ==
    /\ ~crashed
    /\ UNCHANGED fifoVars
    /\ UNCHANGED regVars
    /\ pc[t] = "sync_wait"
    /\ box[t] = "filled"
    /\ Return(t, "reply")
    /\ box' = [box EXCEPT ![t] = "none"]
    /\ waitTimer' = [waitTimer EXCEPT ![t] = TimerOff]
    /\ UNCHANGED <<ret, cause, ioErr, op, calls, txCur, hmRearmed>>
    /\ UNCHANGED <<idleTimer, kaTimer, replyChans, lnChan, nodeSet>>
    /\ UNCHANGED <<buildVars, connVars, codecVars, chanVars, lifeVars, hookVars>>

\* lines 350-351: replyTimeout elapsed
SyncTimeout(t) ==
    /\ ~crashed
    /\ UNCHANGED fifoVars
    /\ UNCHANGED regVars
    /\ pc[t] = "sync_wait"
    /\ waitTimer[t] = 0
    /\ Return(t, "timeout")
    /\ box' = [box EXCEPT ![t] = "none"]
    /\ waitTimer' = [waitTimer EXCEPT ![t] = TimerOff]
    /\ UNCHANGED <<ret, cause, ioErr, op, calls, txCur, hmRearmed>>
    /\ UNCHANGED <<idleTimer, kaTimer, replyChans, lnChan, nodeSet>>
    /\ UNCHANGED <<buildVars, connVars, codecVars, chanVars, lifeVars, hookVars>>

-----------------------------------------------------------------------------
(* The LocalNode's side of the delivery queues: it takes a message from a  *)
(* queue and, when a reply slot is outstanding for its id, fulfils and     *)
(* destroys the slot.                                                      *)

LocalNodeHandle(rt) ==
    /\ ~crashed
    /\ UNCHANGED fifoVars
    /\ UNCHANGED regVars
    /\ lnChan[rt] # <<>>
    /\ lnChan' = [lnChan EXCEPT ![rt] = Tail(@)]
    /\ LET slot == replyChans[Head(lnChan[rt]).MessageId] IN
       IF slot = NoSlot
       THEN UNCHANGED <<replyChans, box>>
       ELSE /\ replyChans' = [replyChans EXCEPT
                                 ![Head(lnChan[rt]).MessageId] = NoSlot]
            /\ box' = IF pc[slot.holder] = "sync_wait"
                         /\ calls[slot.holder] = slot.call
                      THEN [box EXCEPT ![slot.holder] = "filled"]
                      ELSE box
    /\ UNCHANGED nodeSet
    /\ UNCHANGED <<buildVars, connVars, codecVars, chanVars, lifeVars, ctlVars,
                   hookVars, timerVars, sendVars>>

-----------------------------------------------------------------------------
(* tx, lines 274-312 *)

\* lines 275-285: the timer is made and the first iteration begins
TxStart ==
    /\ ~crashed
    /\ UNCHANGED fifoVars
    /\ UNCHANGED regVars
    /\ pc["tx"] = "tx_start"
    /\ kaTimer' = IF isStopped THEN TimerOff ELSE KeepAliveTicks
    /\ pc' = [pc EXCEPT !["tx"] = IF isStopped THEN "done" ELSE "tx_select"]
    /\ UNCHANGED <<ret, cause, ioErr, idleTimer, waitTimer>>
    /\ UNCHANGED <<buildVars, connVars, codecVars, chanVars, lifeVars, hookVars,
                   nodeVars, sendVars>>

\* lines 282-285
TxTop ==
    /\ ~crashed
    /\ UNCHANGED fifoVars
    /\ UNCHANGED regVars
    /\ pc["tx"] = "tx_top"
    /\ IF isStopped
       THEN /\ kaTimer' = TimerOff
            /\ pc' = [pc EXCEPT !["tx"] = "done"]
       ELSE /\ pc' = [pc EXCEPT !["tx"] = "tx_select"]
            /\ UNCHANGED kaTimer
    /\ UNCHANGED <<ret, cause, ioErr, idleTimer, waitTimer>>
    /\ UNCHANGED <<buildVars, connVars, codecVars, chanVars, lifeVars, hookVars,
                   nodeVars, sendVars>>

\* tx taking the newest envelope of the queue instead of the oldest
TxTakeNewest ==
    /\ ~crashed
    /\ UNCHANGED fifoVars
    /\ UNCHANGED regVars
    /\ pc["tx"] = "tx_select"
    /\ txMsgChan # <<>>
    /\ txCur' = txMsgChan[Len(txMsgChan)]
    /\ txMsgChan' = Take(txMsgChan, Len(txMsgChan) - 1)
    /\ pc' = [pc EXCEPT !["tx"] = "tx_write1"]
    /\ UNCHANGED <<ret, cause, ioErr, op, sendRes, calls, hmRearmed, rxMsgChan>>
    /\ UNCHANGED <<buildVars, connVars, codecVars, lifeVars, hookVars,
                   timerVars, nodeVars>>

\* lines 288-295: an envelope is taken, serialised and its length encoded
TxTake ==
    /\ ~crashed
    /\ UNCHANGED fifoVars
    /\ UNCHANGED regVars
    /\ pc["tx"] = "tx_select"
    /\ txMsgChan # <<>>
    /\ txCur' = Head(txMsgChan)
    /\ txMsgChan' = Tail(txMsgChan)
    /\ pc' = [pc EXCEPT !["tx"] = "tx_write1"]
    /\ UNCHANGED <<ret, cause, ioErr, op, sendRes, calls, hmRearmed, rxMsgChan>>
    /\ UNCHANGED <<buildVars, connVars, codecVars, lifeVars, hookVars,
                   timerVars, nodeVars>>

\* lines 306-310 and 355-367: the keepalive timer fired; keepAlive sends a
\* ping with SendMessageAsync and its error is dropped; the timer is reset
TxKeepAlive ==
    /\ ~crashed
    /\ UNCHANGED hmTook
    /\ UNCHANGED regVars
    /\ pc["tx"] = "tx_select"
    /\ kaTimer = 0
    /\ kaTimer' = KeepAliveTicks
    /\ txMsgChan' = IF Len(txMsgChan) < TxChanCap
                    THEN Append(txMsgChan, PingMsg) ELSE txMsgChan
    /\ enqueued' = IF Len(txMsgChan) < TxChanCap
                   THEN Append(enqueued, PingMsg) ELSE enqueued
    /\ pc' = [pc EXCEPT !["tx"] = "tx_top"]
    /\ UNCHANGED <<ret, cause, ioErr, idleTimer, waitTimer, rxMsgChan>>
    /\ UNCHANGED <<buildVars, connVars, codecVars, lifeVars, hookVars,
                   nodeVars, sendVars>>

\* what the k-th write of an iteration sends: the length, then the body
TxBytes(k) ==
    IF k = 1 THEN PutUint32(Len(Marshal(txCur))) ELSE Marshal(txCur)

TxWriteLabel(k) == IF k = 1 THEN "tx_write1" ELSE "tx_write2"
TxAfterWrite(k) == IF k = 1 THEN "tx_write2" ELSE "tx_reset"

\* lines 297 and 302 with err == nil; a write blocks while the send buffer
\* has no room for it; after the second write the timer is reset, line 310
TxWrite(k) ==
    /\ ~crashed
    /\ UNCHANGED fifoVars
    /\ UNCHANGED regVars
    /\ pc["tx"] = TxWriteLabel(k)
    /\ closeCount = 0
    /\ Len(connOut) + Len(TxBytes(k)) <= SendBufCap
    /\ connOut' = connOut \o TxBytes(k)
    /\ IF k = 1
       THEN /\ pc' = [pc EXCEPT !["tx"] = "tx_write2"]
            /\ UNCHANGED <<kaTimer, txCur>>
       ELSE /\ pc' = [pc EXCEPT !["tx"] = "tx_top"]
            /\ kaTimer' = KeepAliveTicks
            /\ txCur' = NoMsg
    /\ UNCHANGED <<ret, cause, ioErr, inFlight, connIn, closeCount, peerSent>>
    /\ UNCHANGED <<idleTimer, waitTimer, op, sendRes, calls, hmRearmed>>
    /\ UNCHANGED <<buildVars, codecVars, chanVars, lifeVars, hookVars, nodeVars>>

\* lines 298-300 and 303-305: the write fails, as every write on the closed
\* conn does
TxWriteError(k) ==
    /\ ~crashed
    /\ UNCHANGED fifoVars
    /\ UNCHANGED regVars
    /\ pc["tx"] = TxWriteLabel(k)
    /\ CallStop("tx", "Write to conn error", TxAfterWrite(k))
    /\ ioErr' = [ioErr EXCEPT !["tx"] = TRUE]
    /\ UNCHANGED <<buildVars, connVars, codecVars, chanVars, lifeVars, hookVars,
                   timerVars, nodeVars, sendVars>>

\* line 310, reached from the Stop call of line 304
TxReset ==
    /\ ~crashed
    /\ UNCHANGED fifoVars
    /\ UNCHANGED regVars
    /\ pc["tx"] = "tx_reset"
    /\ kaTimer' = KeepAliveTicks
    /\ txCur' = NoMsg
    /\ pc' = [pc EXCEPT !["tx"] = "tx_top"]
    /\ UNCHANGED <<ret, cause, ioErr, idleTimer, waitTimer, op, sendRes, calls,
                   hmRearmed>>
    /\ UNCHANGED <<buildVars, connVars, codecVars, chanVars, lifeVars, hookVars,
                   nodeVars>>

-----------------------------------------------------------------------------
(* handleMsg, lines 152-190 *)

\* lines 153-163: the timer is made and the first iteration begins
HmStart ==
    /\ ~crashed
    /\ UNCHANGED fifoVars
    /\ UNCHANGED regVars
    /\ pc["hm"] = "hm_start"
    /\ idleTimer' = IF isStopped THEN TimerOff ELSE IdleTimeoutTicks
    /\ pc' = [pc EXCEPT !["hm"] = IF isStopped THEN "done" ELSE "hm_select"]
    /\ UNCHANGED <<ret, cause, ioErr, kaTimer, waitTimer>>
    /\ UNCHANGED <<buildVars, connVars, codecVars, chanVars, lifeVars, hookVars,
                   nodeVars, sendVars>>

\* handleMsg without the check at the top of its loop
HmTopUnchecked ==
    /\ ~crashed
    /\ UNCHANGED fifoVars
    /\ UNCHANGED regVars
    /\ pc["hm"] = "hm_top"
    /\ pc' = [pc EXCEPT !["hm"] = "hm_select"]
    /\ UNCHANGED <<ret, cause, ioErr, timerVars>>
    /\ UNCHANGED <<buildVars, connVars, codecVars, chanVars, lifeVars, hookVars,
                   nodeVars, sendVars>>

\* lines 160-163
HmTop ==
    /\ ~crashed
    /\ UNCHANGED fifoVars
    /\ UNCHANGED regVars
    /\ pc["hm"] = "hm_top"
    /\ IF isStopped
       THEN /\ idleTimer' = TimerOff
            /\ pc' = [pc EXCEPT !["hm"] = "done"]
       ELSE /\ pc' = [pc EXCEPT !["hm"] = "hm_select"]
            /\ UNCHANGED idleTimer
    /\ UNCHANGED <<ret, cause, ioErr, kaTimer, waitTimer>>
    /\ UNCHANGED <<buildVars, connVars, codecVars, chanVars, lifeVars, hookVars,
                   nodeVars, sendVars>>

\* handleMsg stopping the connection on an unrecognized routing type
HmTakeStopOnUnknown ==
    /\ ~crashed
    /\ UNCHANGED enqueued
    /\ UNCHANGED regVars
    /\ pc["hm"] = "hm_select"
    /\ rxMsgChan # <<>>
    /\ rxMsgChan' = Tail(rxMsgChan)
    /\ hmTook' = Append(hmTook, Head(rxMsgChan))
    /\ LET msg == Head(rxMsgChan) IN
       IF msg.RoutingType \notin KnownRoutingTypes
       THEN /\ hmRearmed' = FALSE
            /\ CallStop("hm", "unknown routing type", "hm_top")
            /\ UNCHANGED <<lnChan, idleTimer>>
       ELSE /\ lnChan' = IF Len(lnChan[msg.RoutingType]) < LnChanCap
                         THEN [lnChan EXCEPT ![msg.RoutingType] = Append(@, msg)]
                         ELSE lnChan
            /\ idleTimer' = IdleTimeoutTicks
            /\ hmRearmed' = TRUE
            /\ pc' = [pc EXCEPT !["hm"] = "hm_top"]
            /\ UNCHANGED <<ret, cause>>
    /\ UNCHANGED <<ioErr, op, sendRes, calls, txCur, txMsgChan>>
    /\ UNCHANGED <<replyChans, box, nodeSet, kaTimer, waitTimer>>
    /\ UNCHANGED <<buildVars, connVars, codecVars, lifeVars, hookVars>>

\* lines 166-183: an envelope is taken; with an unrecognized routing type the
\* iteration ends at `continue`, else the envelope goes to the LocalNode's
\* queue or is dropped when that is full, and the timer is reset, line 188
HmTake ==
    /\ ~crashed
    /\ UNCHANGED enqueued
    /\ UNCHANGED regVars
    /\ pc["hm"] = "hm_select"
    /\ rxMsgChan # <<>>
    /\ rxMsgChan' = Tail(rxMsgChan)
    /\ hmTook' = Append(hmTook, Head(rxMsgChan))
    /\ pc' = [pc EXCEPT !["hm"] = "hm_top"]
    /\ LET msg == Head(rxMsgChan) IN
       IF msg.RoutingType \notin KnownRoutingTypes
       THEN /\ hmRearmed' = FALSE
            /\ UNCHANGED <<lnChan, idleTimer>>
       ELSE /\ lnChan' = IF Len(lnChan[msg.RoutingType]) < LnChanCap
                         THEN [lnChan EXCEPT ![msg.RoutingType] = Append(@, msg)]
                         ELSE lnChan
            /\ idleTimer' = IdleTimeoutTicks
            /\ hmRearmed' = TRUE
    /\ UNCHANGED <<ret, cause, ioErr, op, sendRes, calls, txCur, txMsgChan>>
    /\ UNCHANGED <<replyChans, box, nodeSet, kaTimer, waitTimer>>
    /\ UNCHANGED <<buildVars, connVars, codecVars, lifeVars, hookVars>>

\* handleMsg with the timeout only noted: Stop is not called
HmTimeoutIgnored ==
    /\ ~crashed
    /\ UNCHANGED fifoVars
    /\ UNCHANGED regVars
    /\ pc["hm"] = "hm_select"
    /\ idleTimer = 0
    /\ idleTimer' = TimerOff
    /\ pc' = [pc EXCEPT !["hm"] = "hm_reset"]
    /\ UNCHANGED <<ret, cause, ioErr, kaTimer, waitTimer>>
    /\ UNCHANGED <<buildVars, connVars, codecVars, chanVars, lifeVars, hookVars,
                   nodeVars, sendVars>>

\* lines 184-185: the idle timer fired
HmTimeout ==
    /\ ~crashed
    /\ UNCHANGED fifoVars
    /\ UNCHANGED regVars
    /\ pc["hm"] = "hm_select"
    /\ idleTimer = 0
    /\ idleTimer' = TimerOff
    /\ CallStop("hm", "keepalive timeout", "hm_reset")
    /\ UNCHANGED <<ioErr, kaTimer, waitTimer>>
    /\ UNCHANGED <<buildVars, connVars, codecVars, chanVars, lifeVars, hookVars,
                   nodeVars, sendVars>>

\* line 188, reached from the Stop call of line 185
HmReset ==
    /\ ~crashed
    /\ UNCHANGED fifoVars
    /\ UNCHANGED regVars
    /\ pc["hm"] = "hm_reset"
    /\ idleTimer' = IdleTimeoutTicks
    /\ hmRearmed' = TRUE
    /\ pc' = [pc EXCEPT !["hm"] = "hm_top"]
    /\ UNCHANGED <<ret, cause, ioErr, kaTimer, waitTimer, op, sendRes, calls, txCur>>
    /\ UNCHANGED <<buildVars, connVars, codecVars, chanVars, lifeVars, hookVars,
                   nodeVars>>

-----------------------------------------------------------------------------
(* Start, lines 78-126 *)

\* Start with its body outside the Once: every caller runs it
StartEnterEveryCall(t) ==
    /\ ~crashed
    /\ UNCHANGED fifoVars
    /\ UNCHANGED regVars
    /\ pc[t] = "start_call"
    /\ startOnce' = "running"
    /\ pc' = [pc EXCEPT ![t] = "start_check"]
    /\ UNCHANGED <<stopOnce, isStopped, stopRuns, stopCause, spawned, ret, cause, ioErr>>
    /\ UNCHANGED <<buildVars, connVars, codecVars, chanVars, hookVars,
                   timerVars, nodeVars, sendVars>>

\* line 79, StartOnce.Do: the first caller runs the body, a caller arriving
\* while the body runs waits for it, a later caller returns at once
StartEnter(t) ==
    /\ ~crashed
    /\ UNCHANGED fifoVars
    /\ UNCHANGED regVars
    /\ pc[t] = "start_call"
    /\ startOnce # "running"
    /\ IF startOnce = "idle"
       THEN /\ startOnce' = "running"
            /\ pc' = [pc EXCEPT ![t] = "start_check"]
       ELSE /\ pc' = [pc EXCEPT ![t] = "returned"]
            /\ UNCHANGED startOnce
    /\ UNCHANGED <<stopOnce, isStopped, stopRuns, stopCause, spawned, ret, cause, ioErr>>
    /\ UNCHANGED <<buildVars, connVars, codecVars, chanVars, hookVars,
                   timerVars, nodeVars, sendVars>>

\* where a spawned goroutine begins; the identity task begins inside GetNode,
\* at the SendMessageSync call of line 387
FirstLabel(g) ==
    CASE g = "rx" -> "rx_top"
      [] g = "tx" -> "tx_start"
      [] g = "hm" -> "hm_start"
      [] g = "gn" -> "send_call"

\* lines 80-82: once stopped the body returns
StartCheck(t) ==
    /\ ~crashed
    /\ UNCHANGED fifoVars
    /\ UNCHANGED regVars
    /\ pc[t] = "start_check"
    /\ IF isStopped
       THEN /\ pc' = [pc EXCEPT ![t] = "returned"]
            /\ startOnce' = "done"
       ELSE /\ pc' = [pc EXCEPT ![t] = "start_spawn"]
            /\ UNCHANGED startOnce
    /\ UNCHANGED <<stopOnce, isStopped, stopRuns, stopCause, spawned, ret, cause, ioErr>>
    /\ UNCHANGED <<buildVars, connVars, codecVars, chanVars, hookVars,
                   timerVars, nodeVars, sendVars>>

\* lines 84-88 and 122-125: the four go statements, then Start returns
StartSpawn(t) ==
    /\ ~crashed
    /\ UNCHANGED fifoVars
    /\ UNCHANGED regVars
    /\ pc[t] = "start_spawn"
    /\ startOnce' = "done"
    /\ pc' = [g \in Threads |->
                 IF g = t THEN "returned"
                 ELSE IF g \in Spawned THEN FirstLabel(g) ELSE pc[g]]
    /\ spawned' = [g \in Spawned |-> spawned[g] + 1]
    /\ UNCHANGED <<stopOnce, isStopped, stopRuns, stopCause, ret, cause, ioErr>>
    /\ UNCHANGED <<buildVars, connVars, codecVars, chanVars, hookVars,
                   timerVars, nodeVars, sendVars>>

\* the identity task going on to the ready hooks when the query failed
GnSendFailedIgnored ==
    /\ ~crashed
    /\ UNCHANGED fifoVars
    /\ UNCHANGED regVars
    /\ pc["gn"] = "gn_reply"
    /\ sendRes["gn"] # "reply"
    /\ LET list == store["remoteNodeReady"] IN
       IF list = <<>>
       THEN /\ pc' = [pc EXCEPT !["gn"] = "done"]
            /\ UNCHANGED readyIter
       ELSE /\ pc' = [pc EXCEPT !["gn"] = "gn_hooks"]
            /\ readyIter' = [list |-> list, idx |-> 1]
    /\ UNCHANGED <<ret, cause, ioErr, store, discIter, hookLog>>
    /\ UNCHANGED <<buildVars, connVars, codecVars, chanVars, lifeVars,
                   timerVars, nodeVars, sendVars>>

\* lines 90-93 with the error of SendMessageSync
GnSendFailed ==
    /\ ~crashed
    /\ UNCHANGED fifoVars
    /\ UNCHANGED regVars
    /\ pc["gn"] = "gn_reply"
    /\ sendRes["gn"] # "reply"
    /\ CallStop("gn", "Get node error", "done")
    /\ UNCHANGED ioErr
    /\ UNCHANGED <<buildVars, connVars, codecVars, chanVars, lifeVars, hookVars,
                   timerVars, nodeVars, sendVars>>

\* what the reply and the conn's remote address can be: the reply does not
\* unmarshal; it carries no node; n.Addr does not parse; its port is empty;
\* its host is empty and the conn's address does not parse; all is well
ResolveErrors == {"Get node error", "Parse node addr error",
                  "Node addr port is empty", "Parse conn remote addr error"}
ResolveOutcomes == ResolveErrors \cup {"nil node", "resolved"}

\* lines 90-117 once the reply is there
GnResolve ==
    /\ ~crashed
    /\ UNCHANGED fifoVars
    /\ UNCHANGED regVars
    /\ pc["gn"] = "gn_reply"
    /\ sendRes["gn"] = "reply"
    /\ \E outcome \in ResolveOutcomes :
          IF outcome \in ResolveErrors
          THEN /\ CallStop("gn", outcome, "done")
               /\ UNCHANGED <<crashed, nodeSet, readyIter>>
          ELSE IF outcome = "nil node"
          THEN \* n.Addr on the nil replyBody.Node: nil pointer dereference
               /\ crashed' = TRUE
               /\ UNCHANGED <<pc, ret, cause, nodeSet, readyIter>>
          ELSE /\ nodeSet' = TRUE
               /\ LET list == store["remoteNodeReady"] IN
                  IF list = <<>>
                  THEN /\ pc' = [pc EXCEPT !["gn"] = "done"]
                       /\ UNCHANGED readyIter
                  ELSE /\ pc' = [pc EXCEPT !["gn"] = "gn_hooks"]
                       /\ readyIter' = [list |-> list, idx |-> 1]
               /\ UNCHANGED <<crashed, ret, cause>>
    /\ UNCHANGED <<intBits, ioErr, store, discIter, hookLog>>
    /\ UNCHANGED <<replyChans, box, lnChan>>
    /\ UNCHANGED <<connVars, codecVars, chanVars, lifeVars, timerVars, sendVars>>

\* the ready dispatch without the break: a false result does not end it
GnHookNoBreak ==
    /\ ~crashed
    /\ UNCHANGED fifoVars
    /\ UNCHANGED regVars
    /\ pc["gn"] = "gn_hooks"
    /\ \E r \in BOOLEAN :
        /\ hookLog' = [hookLog EXCEPT !["remoteNodeReady"] =
                          Append(@, [f |-> readyIter.list[readyIter.idx], res |-> r])]
        /\ IF readyIter.idx < Len(readyIter.list)
           THEN /\ readyIter' = [readyIter EXCEPT !.idx = @ + 1]
                /\ UNCHANGED pc
           ELSE /\ readyIter' = NoIter
                /\ pc' = [pc EXCEPT !["gn"] = "done"]
    /\ UNCHANGED <<ret, cause, ioErr, store, discIter>>
    /\ UNCHANGED <<buildVars, connVars, codecVars, chanVars, lifeVars,
                   timerVars, nodeVars, sendVars>>

\* lines 117-121: one callback; the loop ends on false or at the end of the list
GnHook ==
    /\ ~crashed
    /\ UNCHANGED fifoVars
    /\ UNCHANGED regVars
    /\ pc["gn"] = "gn_hooks"
    /\ \E r \in BOOLEAN :
        /\ hookLog' = [hookLog EXCEPT !["remoteNodeReady"] =
                          Append(@, [f |-> readyIter.list[readyIter.idx], res |-> r])]
        /\ IF r /\ readyIter.idx < Len(readyIter.list)
           THEN /\ readyIter' = [readyIter EXCEPT !.idx = @ + 1]
                /\ UNCHANGED pc
           ELSE /\ readyIter' = NoIter
                /\ pc' = [pc EXCEPT !["gn"] = "done"]
    /\ UNCHANGED <<ret, cause, ioErr, store, discIter>>
    /\ UNCHANGED <<buildVars, connVars, codecVars, chanVars, lifeVars,
                   timerVars, nodeVars, sendVars>>

\* a caller outside the connection calls rn.Stop(nil)
ExtStop ==
    /\ ~crashed
    /\ UNCHANGED fifoVars
    /\ UNCHANGED regVars
    /\ pc["e1"] = "ext_idle"
    /\ CallStop("e1", "nil", "returned")
    /\ UNCHANGED ioErr
    /\ UNCHANGED <<buildVars, connVars, codecVars, chanVars, lifeVars, hookVars,
                   timerVars, nodeVars, sendVars>>

-----------------------------------------------------------------------------
(* middlewareStore.ApplyMiddleware, src/node/middleware.go lines 56-91 *)

\* a nil function value
NilFn == 0

\* what a caller can pass as f: a value of one of the five hook types, a nil
\* function or a callback, or a value of another shape: the nil interface,
\* or a value of some other type
RegArgs ==
    [type : Categories, fn : Callbacks \cup {NilFn}]
        \cup [type : {"nil interface", "other type"}, fn : {NilFn}]

NoArg == [type |-> "none", fn |-> NilFn]

\* what a call leaves: the registry and the error returned
RegResult(st, err) == [store |-> st, err |-> err]

\* the switch with the last case appending to the list of the case above it
ApplyMiddlewareWrongList(st, f) ==
    CASE f.type = "localNodeWillStart" ->
            IF f.fn = NilFn THEN RegResult(st, "middleware is nil")
            ELSE RegResult([st EXCEPT !["localNodeWillStart"] = Append(@, f.fn)], "nil")
      [] f.type = "localNodeStarted" ->
            IF f.fn = NilFn THEN RegResult(st, "middleware is nil")
            ELSE RegResult([st EXCEPT !["localNodeStarted"] = Append(@, f.fn)], "nil")
      [] f.type = "remoteNodeConnected" ->
            IF f.fn = NilFn THEN RegResult(st, "middleware is nil")
            ELSE RegResult([st EXCEPT !["remoteNodeConnected"] = Append(@, f.fn)], "nil")
      [] f.type = "remoteNodeReady" ->
            IF f.fn = NilFn THEN RegResult(st, "middleware is nil")
            ELSE RegResult([st EXCEPT !["remoteNodeReady"] = Append(@, f.fn)], "nil")
      [] f.type = "remoteNodeDisconnected" ->
            IF f.fn = NilFn THEN RegResult(st, "middleware is nil")
            ELSE RegResult([st EXCEPT !["remoteNodeReady"] = Append(@, f.fn)], "nil")
      [] OTHER -> RegResult(st, "unknown middleware type")

\* lines 60-90: the type switch, giving the registry and the error returned
ApplyMiddleware(st, f) ==
    CASE f.type = "localNodeWillStart" ->
            IF f.fn = NilFn THEN RegResult(st, "middleware is nil")
            ELSE RegResult([st EXCEPT !["localNodeWillStart"] = Append(@, f.fn)], "nil")
      [] f.type = "localNodeStarted" ->
            IF f.fn = NilFn THEN RegResult(st, "middleware is nil")
            ELSE RegResult([st EXCEPT !["localNodeStarted"] = Append(@, f.fn)], "nil")
      [] f.type = "remoteNodeConnected" ->
            IF f.fn = NilFn THEN RegResult(st, "middleware is nil")
            ELSE RegResult([st EXCEPT !["remoteNodeConnected"] = Append(@, f.fn)], "nil")
      [] f.type = "remoteNodeReady" ->
            IF f.fn = NilFn THEN RegResult(st, "middleware is nil")
            ELSE RegResult([st EXCEPT !["remoteNodeReady"] = Append(@, f.fn)], "nil")
      [] f.type = "remoteNodeDisconnected" ->
            IF f.fn = NilFn THEN RegResult(st, "middleware is nil")
            ELSE RegResult([st EXCEPT !["remoteNodeDisconnected"] = Append(@, f.fn)], "nil")
      [] OTHER -> RegResult(st, "unknown middleware type")

\* a caller starts ApplyMiddleware(f), f one of args
RegCall(args) ==
    /\ ~crashed
    /\ UNCHANGED fifoVars
    /\ pc["m1"] = "reg_idle"
    /\ regCount < MaxRegs
    /\ \E f \in args : regArg' = f
    /\ regErr' = "none"
    /\ regCount' = regCount + 1
    /\ pc' = [pc EXCEPT !["m1"] = "reg_lock"]
    /\ UNCHANGED <<mwLock, ret, cause, ioErr>>
    /\ UNCHANGED <<buildVars, connVars, codecVars, chanVars, lifeVars, hookVars,
                   timerVars, nodeVars, sendVars>>

\* line 57: store.Lock()
RegLock ==
    /\ ~crashed
    /\ UNCHANGED fifoVars
    /\ pc["m1"] = "reg_lock"
    /\ mwLock = "free"
    /\ mwLock' = "w"
    /\ pc' = [pc EXCEPT !["m1"] = "reg_apply"]
    /\ UNCHANGED <<regArg, regErr, regCount, ret, cause, ioErr>>
    /\ UNCHANGED <<buildVars, connVars, codecVars, chanVars, lifeVars, hookVars,
                   timerVars, nodeVars, sendVars>>

\* lines 60-90: the type switch
RegApply ==
    /\ ~crashed
    /\ UNCHANGED fifoVars
    /\ pc["m1"] = "reg_apply"
    /\ store' = ApplyMiddleware(store, regArg).store
    /\ regErr' = ApplyMiddleware(store, regArg).err
    /\ pc' = [pc EXCEPT !["m1"] = "reg_unlock"]
    /\ UNCHANGED <<mwLock, regArg, regCount, ret, cause, ioErr>>
    /\ UNCHANGED <<discIter, readyIter, hookLog>>
    /\ UNCHANGED <<buildVars, connVars, codecVars, chanVars, lifeVars,
                   timerVars, nodeVars, sendVars>>

\* line 58, deferred: store.Unlock(), and the call returns
RegUnlock ==
    /\ ~crashed
    /\ UNCHANGED fifoVars
    /\ pc["m1"] = "reg_unlock"
    /\ mwLock' = "free"
    /\ pc' = [pc EXCEPT !["m1"] = "reg_idle"]
    /\ UNCHANGED <<regArg, regErr, regCount, ret, cause, ioErr>>
    /\ UNCHANGED <<buildVars, connVars, codecVars, chanVars, lifeVars, hookVars,
                   timerVars, nodeVars, sendVars>>

-----------------------------------------------------------------------------
(* Initial states *)

\* the registered lists: none, or MaxHooks callbacks, the last one first
HookLists == { [i \in 1..n |-> MaxHooks + 1 - i] : n \in {0, MaxHooks} }

\* the registry after setup: the per-connection categories hold the same list
LifeStores == { [c \in Categories |->
                   IF c \in {"remoteNodeReady", "remoteNodeDisconnected"}
                   THEN list ELSE <<>>] : list \in HookLists }

\* the state NewRemoteNode leaves (lines 52-75) when started = FALSE, and the
\* state in which Start has returned and none of the goroutines it spawned
\* has run yet when started = TRUE; given the build, what the peer sends,
\* whether that has arrived, and the registry
Setup(bits, items, arrived, st, started) ==
    /\ intBits = bits
    /\ crashed = FALSE
    /\ peerSent = items
    /\ connIn = (IF arrived THEN Wire(items) ELSE <<>>)
    /\ inFlight = (IF arrived THEN <<>> ELSE Wire(items))
    /\ connOut = <<>>
    /\ closeCount = 0
    /\ rxBuf = [buf |-> <<>>, len |-> 0]
    /\ rxArg = <<>>
    /\ handled = <<>>
    /\ rxMsgChan = <<>>
    /\ txMsgChan = <<>>
    /\ startOnce = (IF started THEN "done" ELSE "idle")
    /\ stopOnce = "idle"
    /\ isStopped = FALSE
    /\ stopRuns = 0
    /\ stopCause = "none"
    /\ spawned = [t \in Spawned |-> IF started THEN 1 ELSE 0]
    /\ pc = [t \in Threads |->
                CASE t \in Starters -> IF started THEN "returned" ELSE "start_call"
                  [] t = "e1" -> "ext_idle"
                  [] t \in Spawned -> IF started THEN FirstLabel(t) ELSE "unborn"
                  [] t = "m1" -> "reg_idle"
                  [] OTHER -> "s_idle"]
    /\ ret = [t \in Threads |-> "returned"]
    /\ cause = [t \in Threads |-> "none"]
    /\ ioErr = [t \in Threads |-> FALSE]
    /\ store = st
    /\ discIter = NoIter
    /\ readyIter = NoIter
    /\ hookLog = [c \in Categories |-> <<>>]
    /\ idleTimer = TimerOff
    /\ kaTimer = TimerOff
    /\ waitTimer = [t \in Callers |-> TimerOff]
    /\ replyChans = [id \in MessageIds |-> NoSlot]
    /\ box = [t \in Callers |-> "none"]
    /\ lnChan = [rt \in KnownRoutingTypes |-> <<>>]
    /\ nodeSet = FALSE
    /\ op = [t \in Callers |->
                IF t = "gn" THEN [kind |-> "sync", msg |-> GetNodeMsg] ELSE NoOp]
    /\ sendRes = [t \in Callers |-> "none"]
    /\ calls = [t \in Callers |-> IF t = "gn" THEN 1 ELSE 0]
    /\ txCur = NoMsg
    /\ hmRearmed = TRUE
    /\ mwLock = "free"
    /\ regArg = NoArg
    /\ regErr = "none"
    /\ regCount = 0
    /\ hmTook = <<>>
    /\ enqueued = <<>>

Constructed(bits, items, arrived, st) == Setup(bits, items, arrived, st, FALSE)
Started(bits, items, arrived, st) == Setup(bits, items, arrived, st, TRUE)

\* the steps of a Stop call, whoever makes it
StopSteps(t) == StopEnter(t) \/ StopClose(t) \/ StopHook(t)

-----------------------------------------------------------------------------
(* The codec driven by the receive loop: Start has run and only rx is      *)
(* scheduled; the peer's bytes and the way they arrive vary.               *)

InitCodec ==
    \E bits \in {32, 64}, items \in ItemSeqs :
        Started(bits, items, FALSE,
                [c \in Categories |->
                    IF c = "remoteNodeDisconnected" THEN <<1>> ELSE <<>>])

NextCodec ==
    \/ PeerArrive
    \/ RxTop
    \/ RxReadData
    \/ RxReadEOF
    \/ RxReadError
    \/ RxReadBuf
    \/ StopEnter("rx")
    \/ StopClose("rx")
    \/ StopHook("rx")

SpecCodec == InitCodec /\ [][NextCodec]_vars

-----------------------------------------------------------------------------
(* The connection from construction on: two callers of Start, an outside   *)
(* caller of Stop, and of the goroutines Start spawns the receive and the  *)
(* dispatch loop; tx and the identity task are spawned and not scheduled.  *)
(* The peer sends one frame: a reply, or an envelope of routing type 7.    *)

LifeItemSeqs == { <<[bad |-> FALSE, body |-> b]>> :
                    b \in {<<TagMessageId, 1>>, <<TagRoutingType, 7, TagMessageId, 2>>} }

Init ==
    \E items \in LifeItemSeqs, st \in LifeStores :
        Constructed(64, items, TRUE, st)

Next ==
    \/ \E t \in Starters : StartEnter(t)
    \/ \E t \in Starters : StartCheck(t)
    \/ \E t \in Starters : StartSpawn(t)
    \/ ExtStop
    \/ \E t \in Threads : StopEnter(t)
    \/ \E t \in Threads : StopClose(t)
    \/ \E t \in Threads : StopHook(t)
    \/ RxTop
    \/ RxReadData
    \/ RxReadEOF
    \/ RxReadError
    \/ RxReadBuf
    \/ HmStart
    \/ HmTop
    \/ HmTake
    \/ HmTimeout
    \/ HmReset
    \/ \E rt \in KnownRoutingTypes : LocalNodeHandle(rt)
    \/ Tick

Spec == Init /\ [][Next]_vars

\* the Go scheduler runs every goroutine that can take a step: the dispatch
\* loop, and whoever is inside a Stop call
SpecLive ==
    /\ Spec
    /\ WF_vars(HmStart \/ HmTop \/ HmTimeout \/ HmReset)
    /\ \A t \in Threads : WF_vars(StopSteps(t))

-----------------------------------------------------------------------------
(* The send API: Start has run; two callers send and tx writes to a peer   *)
(* that does not read; rx, the dispatch loop and the identity task are not *)
(* scheduled.                                                              *)

NoHooks == [c \in Categories |-> <<>>]

InitSend == Started(64, <<>>, TRUE, NoHooks)

NextSend ==
    \/ \E t \in Senders : SenderCall(t)
    \/ \E t \in Senders : SendEnqueue(t)
    \/ \E t \in Senders : SendAlloc(t)
    \/ \E t \in Senders : SyncTimeout(t)
    \/ TxStart
    \/ TxTop
    \/ TxTake
    \/ TxKeepAlive
    \/ \E k \in {1, 2} : TxWrite(k)
    \/ Tick

SpecSend == InitSend /\ [][NextSend]_vars

-----------------------------------------------------------------------------
(* The two stream loops: Start has run; rx reads what the peer sends and   *)
(* tx writes keepalive pings; the dispatch loop and the identity task are  *)
(* not scheduled.                                                          *)

InitIO ==
    \E items \in LifeItemSeqs, st \in LifeStores :
        Started(64, items, TRUE, st)

NextIO ==
    \/ RxTop
    \/ RxReadData
    \/ RxReadEOF
    \/ RxReadError
    \/ RxReadBuf
    \/ TxStart
    \/ TxTop
    \/ TxTake
    \/ TxKeepAlive
    \/ \E k \in {1, 2} : TxWrite(k)
    \/ \E k \in {1, 2} : TxWriteError(k)
    \/ TxReset
    \/ \E t \in {"rx", "tx"} : StopEnter(t)
    \/ \E t \in {"rx", "tx"} : StopClose(t)
    \/ \E t \in {"rx", "tx"} : StopHook(t)
    \/ Tick

SpecIO == InitIO /\ [][NextIO]_vars

-----------------------------------------------------------------------------
(* Identity resolution: Start has run; the identity task waits for the     *)
(* reply to its GetNode query, which the peer sends; rx and the dispatch   *)
(* loop carry it to the LocalNode; tx is not scheduled.                    *)

ReplyItemSeqs == { <<[bad |-> FALSE, body |-> <<TagMessageId, 1>>]>> }

InitResolve ==
    \E items \in ReplyItemSeqs, st \in LifeStores :
        Started(64, items, FALSE, st)

NextResolve ==
    \/ SendEnqueue("gn")
    \/ SendAlloc("gn")
    \/ SyncReply("gn")
    \/ SyncTimeout("gn")
    \/ GnSendFailed
    \/ GnResolve
    \/ GnHook
    \/ PeerArrive
    \/ RxTop
    \/ RxReadData
    \/ RxReadEOF
    \/ RxReadError
    \/ RxReadBuf
    \/ HmStart
    \/ HmTop
    \/ HmTake
    \/ HmTimeout
    \/ HmReset
    \/ \E rt \in KnownRoutingTypes : LocalNodeHandle(rt)
    \/ \E t \in {"rx", "hm", "gn"} : StopEnter(t)
    \/ \E t \in {"rx", "hm", "gn"} : StopClose(t)
    \/ \E t \in {"rx", "hm", "gn"} : StopHook(t)
    \/ Tick

SpecResolve == InitResolve /\ [][NextResolve]_vars

-----------------------------------------------------------------------------
(* The registry on its own: a caller registers hooks before the connection *)
(* is started.                                                             *)

InitRegistry ==
    \E st \in LifeStores : Constructed(64, <<>>, TRUE, st)

NextRegistry ==
    \/ RegCall(RegArgs)
    \/ RegLock
    \/ RegApply
    \/ RegUnlock

SpecRegistry == InitRegistry /\ [][NextRegistry]_vars

-----------------------------------------------------------------------------
(* The two queues: Start has run; the peer has sent one frame more than    *)
(* rxMsgChan holds and keeps the connection open; rx, the dispatch loop    *)
(* and the LocalNode work on them; two callers each send envelopes of      *)
(* their own and tx writes them. No time passes and nothing fails.         *)

FifoBodies == { <<TagMessageId, 1>>, <<TagRoutingType, 1, TagMessageId, 2>> }

\* frames whose neighbours differ, so that their order shows
FifoItemSeqs ==
    { s \in [1..(RxChanCap + 1) -> [bad : {FALSE}, body : FifoBodies]] :
        \A i \in 1..RxChanCap : s[i] # s[i + 1] }

InitFifo ==
    \E items \in FifoItemSeqs : Started(64, items, TRUE, NoHooks)

NextFifo ==
    \/ RxTop
    \/ RxReadData
    \/ RxReadBuf
    \/ HmStart
    \/ HmTop
    \/ HmTake
    \/ \E rt \in KnownRoutingTypes : LocalNodeHandle(rt)
    \/ \E t \in Senders : SenderCallAsync(t)
    \/ \E t \in Senders : SendEnqueue(t)
    \/ TxStart
    \/ TxTop
    \/ TxTake
    \/ \E k \in {1, 2} : TxWrite(k)

SpecFifo == InitFifo /\ [][NextFifo]_vars

-----------------------------------------------------------------------------
(* Messages that fail: Start has run; the peer has sent one frame more     *)
(* than rxMsgChan holds, each a truncated serialisation, an envelope with  *)
(* an unrecognized routing type or an envelope for the LocalNode; rx, the  *)
(* dispatch loop and the LocalNode run, time passes, reads may fail.       *)

DiscardBodies == { <<TagRoutingType>>, <<TagRoutingType, 7, TagMessageId, 2>>,
                   <<TagMessageId, 1>> }

DiscardItemSeqs == [1..(RxChanCap + 1) -> [bad : {FALSE}, body : DiscardBodies]]

InitDiscard ==
    \E items \in DiscardItemSeqs : Started(64, items, TRUE, NoHooks)

NextDiscard ==
    \/ RxTop
    \/ RxReadData
    \/ RxReadError
    \/ RxReadBuf
    \/ HmStart
    \/ HmTop
    \/ HmTake
    \/ HmTimeout
    \/ HmReset
    \/ \E rt \in KnownRoutingTypes : LocalNodeHandle(rt)
    \/ \E t \in {"rx", "hm"} : StopEnter(t)
    \/ \E t \in {"rx", "hm"} : StopClose(t)
    \/ Tick

SpecDiscard == InitDiscard /\ [][NextDiscard]_vars

-----------------------------------------------------------------------------
(* Dispatch and registration: Start has run; a caller stops the connection *)
(* while another registers hooks with ApplyMiddleware.                     *)

InitDispatch ==
    \E st \in LifeStores : Started(64, <<>>, TRUE, st)

NextDispatch ==
    \/ ExtStop
    \/ StopEnter("e1")
    \/ StopClose("e1")
    \/ StopHook("e1")
    \/ RegCall(RegArgs)
    \/ RegLock
    \/ RegApply
    \/ RegUnlock

SpecDispatch == InitDispatch /\ [][NextDispatch]_vars

-----------------------------------------------------------------------------
(* The three loops and Stop: Start has run; rx, tx and the dispatch loop   *)
(* run, time passes, the peer may close, reads and writes fail once the     *)
(* conn is closed; no hook is registered and the LocalNode takes nothing   *)
(* from its queues.                                                        *)

Loops == {"rx", "tx", "hm"}

\* lines 267-268: the read on the closed conn returns its error
RxReadClosed == RxReadError /\ closeCount > 0

\* lines 298-300 and 303-305: the write on the closed conn returns its error
TxWriteClosed(k) == TxWriteError(k) /\ closeCount > 0

InitLoops ==
    \E items \in ReplyItemSeqs : Started(64, items, TRUE, NoHooks)

NextLoops ==
    \/ \E t \in Loops : StopEnter(t)
    \/ \E t \in Loops : StopClose(t)
    \/ RxTop
    \/ RxReadData
    \/ RxReadEOF
    \/ RxReadClosed
    \/ RxReadBuf
    \/ TxStart
    \/ TxTop
    \/ TxTake
    \/ TxKeepAlive
    \/ \E k \in {1, 2} : TxWrite(k)
    \/ \E k \in {1, 2} : TxWriteClosed(k)
    \/ TxReset
    \/ HmStart
    \/ HmTop
    \/ HmTake
    \/ HmTimeout
    \/ HmReset
    \/ Tick

SpecLoops == InitLoops /\ [][NextLoops]_vars

\* the Go scheduler runs every goroutine that can take a step; a read or a
\* write on the closed conn returns its error; the clock goes on, so that
\* the timers fire
SpecLoopsLive ==
    /\ SpecLoops
    /\ \A t \in Loops : WF_vars(StopEnter(t) \/ StopClose(t))
    /\ WF_vars(RxTop \/ RxReadBuf)
    /\ WF_vars(RxReadClosed)
    /\ WF_vars(TxStart \/ TxTop \/ TxTake \/ TxKeepAlive \/ TxReset)
    /\ \A k \in {1, 2} : WF_vars(TxWriteClosed(k))
    /\ WF_vars(HmStart \/ HmTop \/ HmTake \/ HmTimeout \/ HmReset)
    /\ WF_vars(Tick)

-----------------------------------------------------------------------------
(* Waking on a stopped connection: Start has run and the queues are empty; *)
(* a caller outside stops the connection; only then does a caller send an  *)
(* envelope and does the peer's frame arrive. Reads and writes succeed     *)
(* until the conn is closed and fail after.                                *)

\* SendMessageAsync called once the stopped state is set
SendAfterStop(t) == SenderCallAsync(t) /\ isStopped

\* the peer's bytes arriving once the stopped state is set
ArriveAfterStop == PeerArrive /\ isStopped

InitWake ==
    \E items \in ReplyItemSeqs : Started(64, items, FALSE, NoHooks)

NextWake ==
    \/ ExtStop
    \/ \E t \in {"e1", "rx", "tx"} : StopEnter(t)
    \/ \E t \in {"e1", "rx", "tx"} : StopClose(t)
    \/ SendAfterStop("s1")
    \/ SendEnqueue("s1")
    \/ TxStart
    \/ TxTop
    \/ TxTake
    \/ \E k \in {1, 2} : TxWrite(k)
    \/ \E k \in {1, 2} : TxWriteClosed(k)
    \/ TxReset
    \/ ArriveAfterStop
    \/ RxTop
    \/ RxReadData
    \/ RxReadClosed
    \/ RxReadBuf
    \/ HmStart
    \/ HmTop
    \/ HmTake

SpecWake == InitWake /\ [][NextWake]_vars

-----------------------------------------------------------------------------
(* Claims *)

IsPrefix(s, t) == Len(s) <= Len(t) /\ s = Take(t, Len(s))

\* readBuf is between two invocations
RxBetweenReads == pc["rx"] \in {"rx_top", "rx_read"}

\* C1: when the peer sends only valid frames, the buffers readBuf hands to
\* handleMsgBuf are the frame bodies, in order and complete, however the reads
\* chunk the bytes: always a prefix of them, and all of them once every byte
\* has been read and fed to readBuf.
C1_FramesHandedOver ==
    ValidItems(peerSent) =>
        /\ IsPrefix(handled, BodiesOf(peerSent))
        /\ (inFlight = <<>> /\ connIn = <<>> /\ RxBetweenReads => handled = BodiesOf(peerSent))

\* C2: once readBuf has returned from decoding a header whose length is
\* negative as a signed 32-bit integer, Stop has been called on the
\* connection.
C2_NegativeLengthStops ==
    rxBuf.len < 0 /\ pc["rx"] # "rx_readBuf" => stopOnce # "idle"

InStop(t) == pc[t] \in {"stop_call", "stop_close", "stop_hooks"}

\* the calls logged for callback f in category c
CallsOf(c, f) == { i \in 1..Len(hookLog[c]) : hookLog[c][i].f = f }

\* C3: whoever calls Stop, and however many callers there are, the shutdown
\* body runs at most once and, once a Stop call has returned, exactly once:
\* the lifecycle is stopped by it, the stream is closed once, and each
\* peer-disconnected hook is invoked at most once.
C3_StopBodyOnce ==
    /\ stopRuns <= 1
    /\ closeCount <= 1
    /\ isStopped = (stopRuns = 1)
    /\ \A f \in Callbacks : Cardinality(CallsOf("remoteNodeDisconnected", f)) <= 1
    /\ (stopOnce = "done" => stopRuns = 1 /\ closeCount = 1)
    /\ \A t \in Threads : cause[t] # "none" /\ ~InStop(t) => stopOnce = "done"

\* three triggers called Stop (the outside caller, rx on a read error and the
\* dispatch loop on its timeout), all have returned, every hook ran
C3_ThreeCallersReturned ==
    /\ \A t \in {"e1", "rx", "hm"} : cause[t] # "none" /\ ~InStop(t)
    /\ Len(hookLog["remoteNodeDisconnected"]) = MaxHooks

\* the calls of one dispatch follow the registered list from its start, and
\* every call but the last returned true
InOrderUntilVeto(c) ==
    /\ Len(hookLog[c]) <= Len(store[c])
    /\ \A i \in 1..Len(hookLog[c]) : hookLog[c][i].f = store[c][i]
    /\ \A i \in 1..(Len(hookLog[c]) - 1) : hookLog[c][i].res

\* C4: the peer-ready and the peer-disconnected dispatch each call the
\* callbacks in registration order and call none after one that returned
\* false; the peer-disconnected hooks run at Stop whatever the peer-ready
\* dispatch did.
C4_HooksInOrderVetoEnds ==
    /\ InOrderUntilVeto("remoteNodeReady")
    /\ InOrderUntilVeto("remoteNodeDisconnected")
    /\ (stopOnce = "done" /\ store["remoteNodeDisconnected"] # <<>>
           => hookLog["remoteNodeDisconnected"] # <<>>)

\* the first peer-ready hook vetoed, and the peer-disconnected hooks ran all
C4_ReadyVetoedDisconnectedRan ==
    /\ Len(store["remoteNodeReady"]) = MaxHooks
    /\ pc["gn"] = "done"
    /\ Len(hookLog["remoteNodeReady"]) = 1
    /\ ~hookLog["remoteNodeReady"][1].res
    /\ Len(hookLog["remoteNodeDisconnected"]) = MaxHooks

\* C5: the outbound queue never holds more than its capacity; a send call
\* that finds it full can always take its step, and that step returns the
\* error, leaves the queue as it was and registers no reply slot.
C5_FullQueueRejects ==
    /\ [](Len(txMsgChan) <= TxChanCap)
    /\ [](\A t \in Senders : pc[t] = "send_call" => ENABLED SendEnqueue(t))
    /\ [][\A t \in Senders :
            pc[t] = "send_call" /\ pc'[t] # "send_call" /\ Len(txMsgChan) = TxChanCap
                => /\ sendRes'[t] = "full"
                   /\ pc'[t] = "s_idle"
                   /\ txMsgChan' = txMsgChan
                   /\ replyChans' = replyChans]_vars

\* a sync send was turned down by the full queue
C5_SyncSendRejected ==
    \E t \in Senders :
        /\ sendRes[t] = "full"
        /\ op[t].kind = "sync"
        /\ Len(txMsgChan) = TxChanCap

\* C6: when SendMessageSync has returned the timeout error, the caller no
\* longer holds the reply slot of the envelope's message id.
C6_TimeoutReleasesSlot ==
    \A t \in Senders :
        sendRes[t] = "timeout" => replyChans[op[t].msg.MessageId].holder # t

\* C7: when an iteration of handleMsg that took an envelope has ended, the
\* idle timer has been reset in it.
C7_IdleTimerRearmed ==
    pc["hm"] = "hm_top" => hmRearmed

\* no envelope can reach the dispatch loop any more
NoInbound ==
    /\ rxMsgChan = <<>>
    /\ connIn = <<>>
    /\ rxArg = <<>>

\* C8: when the idle timer has fired while the dispatch loop waits and no
\* envelope comes, the loop calls Stop with the keepalive-timeout cause, the
\* connection gets stopped and the loop exits.
C8_IdleTimeoutStops ==
    /\ [](pc["hm"] = "stop_call" => cause["hm"] = "keepalive timeout")
    /\ (pc["hm"] = "hm_select" /\ idleTimer = 0 /\ NoInbound)
          ~> (isStopped /\ pc["hm"] = "done" /\ cause["hm"] = "keepalive timeout")

\* the Stop call of the dispatch loop ran the body, and the loop has exited
C8_TimedOutAndExited ==
    /\ stopCause = "keepalive timeout"
    /\ stopOnce = "done"
    /\ pc["hm"] = "done"

\* C9: each goroutine is spawned at most once; only the one Start call that
\* runs the Once body spawns, before the call has returned, and it does so
\* only if it found the connection not stopped: no Start call spawns once a
\* Start has returned, none that began after Stop had set the stopped state.
C9_SpawnedAtMostOnce ==
    /\ [](\A g \in Spawned : spawned[g] <= 1)
    /\ [][spawned' # spawned =>
            /\ startOnce = "running"
            /\ \E t \in Starters : pc[t] = "start_spawn"]_vars
    /\ [][\A t \in Starters :
            pc[t] # "start_spawn" /\ pc'[t] = "start_spawn"
                => ~isStopped /\ startOnce = "running"]_vars
    /\ [][isStopped /\ (\A t \in Starters : pc[t] \in {"start_call", "returned"})
            => spawned' = spawned]_vars

\* both Start calls returned, the first of them made after Stop: none spawned
C9_StartAfterStop ==
    /\ \A t \in Starters : pc[t] = "returned"
    /\ startOnce = "done"
    /\ stopOnce = "done"
    /\ \A g \in Spawned : spawned[g] = 0

\* C10: once a read in rx or a write in tx has failed and the Stop call that
\* follows has returned, the connection is stopped and the stream closed;
\* rx does not read again and tx takes nothing more.
C10_IoErrorStops ==
    /\ \A t \in {"rx", "tx"} :
          ioErr[t] /\ ~InStop(t) => isStopped /\ closeCount >= 1 /\ cause[t] # "none"
    /\ (ioErr["rx"] => pc["rx"] \notin {"rx_read", "rx_readBuf"})
    /\ (ioErr["tx"] => pc["tx"] \notin {"tx_select", "tx_write1"})

\* a read failed, a write failed, and both loops have exited
C10_BothLoopsFailedAndExited ==
    /\ ioErr["rx"]
    /\ ioErr["tx"]
    /\ pc["rx"] = "done"
    /\ pc["tx"] = "done"

\* C11: a call with a non-nil callback of one of the five hook types returns
\* no error and appends the callback at the end of that category's list,
\* the other lists and the list's earlier entries staying as they were; a
\* call with a nil callback or a value of another shape returns an error
\* and changes no list; no other step of the call changes the registry.
C11_ApplyMiddlewareAppends ==
    [][IF pc["m1"] = "reg_apply" /\ pc'["m1"] = "reg_unlock"
       THEN IF regArg.type \in Categories /\ regArg.fn # NilFn
            THEN /\ regErr' = "nil"
                 /\ store'[regArg.type] = Append(store[regArg.type], regArg.fn)
                 /\ \A c \in Categories \ {regArg.type} : store'[c] = store[c]
            ELSE /\ regErr' \in {"middleware is nil", "unknown middleware type"}
                 /\ store' = store
       ELSE store' = store]_vars

\* a peer-disconnected hook was appended to a list that held hooks, and a
\* nil peer-ready hook was then turned down
C11_AppendedThenRejected ==
    /\ regCount = 2
    /\ pc["m1"] = "reg_idle"
    /\ store["remoteNodeDisconnected"] = <<2, 1, 1>>
    /\ store["remoteNodeReady"] = <<2, 1>>
    /\ regArg = [type |-> "remoteNodeReady", fn |-> NilFn]
    /\ regErr = "middleware is nil"

RECURSIVE IsSubseq(_, _)
\* s is t with some entries left out
IsSubseq(s, t) ==
    IF s = <<>> THEN TRUE
    ELSE IF t = <<>> THEN FALSE
    ELSE IF Head(s) = Head(t) THEN IsSubseq(Tail(s), Tail(t))
    ELSE IsSubseq(s, Tail(t))

RECURSIVE Decoded(_)
\* the envelopes of the buffers that deserialize, in order
Decoded(bufs) ==
    IF bufs = <<>> THEN <<>>
    ELSE (IF Unmarshal(Head(bufs)).ok THEN <<Unmarshal(Head(bufs)).msg>> ELSE <<>>)
             \o Decoded(Tail(bufs))

RECURSIVE FramesOf(_)
\* the frames of a list of envelopes, one after the other
FramesOf(msgs) ==
    IF msgs = <<>> THEN <<>>
    ELSE Frame(Marshal(Head(msgs))) \o FramesOf(Tail(msgs))

\* the envelope tx has taken and not written in full, if any
TxInHand == IF pc["tx"] \in {"tx_write1", "tx_write2"} THEN <<txCur>> ELSE <<>>

\* the envelopes tx has written in full
TxWritten == Take(enqueued, Len(enqueued) - Len(TxInHand) - Len(txMsgChan))

\* C12: the envelopes the dispatch loop took, followed by those waiting in
\* the inbound queue, are the envelopes of the frames the codec completed,
\* in that order, with some left out; the envelopes enqueued are, in order,
\* those written, the one in tx's hand and those waiting in the outbound
\* queue, and the bytes on the stream are the frames of the written ones in
\* that order, followed by the header of the one in hand once it is written.
C12_BothDirectionsFifo ==
    /\ IsSubseq(hmTook \o rxMsgChan, Decoded(handled))
    /\ Len(TxInHand) + Len(txMsgChan) <= Len(enqueued)
    /\ enqueued = TxWritten \o TxInHand \o txMsgChan
    /\ connOut = FramesOf(TxWritten)
                    \o (IF pc["tx"] = "tx_write2"
                        THEN PutUint32(Len(Marshal(txCur))) ELSE <<>>)

\* the last inbound envelope was dropped on the full queue and the others,
\* two of them different, were taken; both callers' envelopes were written, the second caller's first
C12_DroppedInboundBothWritten ==
    /\ Len(hmTook) = RxChanCap
    /\ Len(Decoded(handled)) = RxChanCap + 1
    /\ hmTook[1] # hmTook[2]
    /\ rxMsgChan = <<>>
    /\ enqueued = <<OwnMsg("s2"), OwnMsg("s1")>>
    /\ connOut = FramesOf(enqueued)

\* the envelope is delivered to the LocalNode's queue when its routing type
\* has one and the queue has room, and to nobody otherwise
Delivered(msg) ==
    IF msg.RoutingType \in KnownRoutingTypes
       /\ Len(lnChan[msg.RoutingType]) < LnChanCap
    THEN lnChan' = [lnChan EXCEPT ![msg.RoutingType] = Append(@, msg)]
    ELSE lnChan' = lnChan

\* C13: the step of rx that hands a buffer to handleMsgBuf adds its envelope
\* to the inbound queue when it deserializes and the queue has room and
\* leaves the queue alone otherwise, and the step of the dispatch loop that
\* takes an envelope removes exactly that envelope and delivers it when its
\* routing type is recognized and the delivery queue has room; in every case
\* Stop is not called, the connection's stopped state and the stream are as
\* before, the codec is empty for the next frame and the loop goes on.
C13_PerMessageFailureContinues ==
    [][/\ handled' # handled =>
            /\ LET new == Decoded(Drop(handled', Len(handled))) IN
               rxMsgChan' = rxMsgChan \o
                   Take(new, Min(Len(new), RxChanCap - Len(rxMsgChan)))
            /\ rxBuf' = [buf |-> <<>>, len |-> 0]
            /\ pc'["rx"] \in {"rx_readBuf", "rx_top"}
            /\ ~crashed'
            /\ UNCHANGED <<lifeVars, closeCount, lnChan, hmTook>>
       /\ hmTook' # hmTook =>
            /\ rxMsgChan' = Tail(rxMsgChan)
            /\ Delivered(Head(rxMsgChan))
            /\ pc'["hm"] = "hm_top"
            /\ UNCHANGED <<lifeVars, closeCount, codecVars>>]_vars

\* a frame failed deserialization, the next envelope had an unrecognized
\* routing type, and the envelope after them reached the LocalNode's queue
\* of a connection that is not stopped
C13_ValidAfterTwoDiscards ==
    /\ Len(handled) = 3
    /\ ~Unmarshal(handled[1]).ok
    /\ hmTook = <<Unmarshal(handled[2]).msg, Unmarshal(handled[3]).msg>>
    /\ hmTook[1].RoutingType \notin KnownRoutingTypes
    /\ lnChan[0] = <<hmTook[2]>>
    /\ stopOnce = "idle"

\* the identity task has called Stop
GnFailed == cause["gn"] # "none"

\* C14: while a peer-ready hook runs, and once one has run, the resolution
\* has succeeded and the node record is stored; when the query has returned
\* an error the task calls Stop with the query's cause; once the task has
\* called Stop, for a failed query, an address that does not parse or an
\* empty port, no node record is stored, no peer-ready hook has run or will
\* run, and when the call has returned the connection is stopped with a
\* cause.
C14_ReadyOnlyAfterResolved ==
    /\ (pc["gn"] = "gn_hooks" \/ hookLog["remoteNodeReady"] # <<>>)
          => nodeSet /\ sendRes["gn"] = "reply" /\ ~GnFailed
    /\ (sendRes["gn"] \notin {"none", "reply"} /\ pc["gn"] # "gn_reply")
          => cause["gn"] = "Get node error"
    /\ GnFailed =>
          /\ cause["gn"] \in ResolveErrors
          /\ ~nodeSet
          /\ hookLog["remoteNodeReady"] = <<>>
          /\ pc["gn"] \in {"stop_call", "stop_close", "stop_hooks", "done"}
          /\ (pc["gn"] = "done" => isStopped /\ stopCause # "none")

\* the query timed out with peer-ready hooks registered: the task stopped
\* the connection, the peer-disconnected hooks ran and no peer-ready hook
C14_QueryTimedOutNoReadyHook ==
    /\ sendRes["gn"] = "timeout"
    /\ pc["gn"] = "done"
    /\ stopCause = "Get node error"
    /\ Len(store["remoteNodeReady"]) = MaxHooks
    /\ hookLog["remoteNodeReady"] = <<>>
    /\ Len(hookLog["remoteNodeDisconnected"]) = MaxHooks

\* ApplyMiddleware is at its switch, about to append to the list of c
Appending(c) ==
    pc["m1"] = "reg_apply" /\ regArg.type = c /\ regArg.fn # NilFn

\* C15: in no state is a dispatch inside its loop over a hook list (the
\* peer-ready loop of Start, the peer-disconnected loop of Stop) while
\* ApplyMiddleware is appending to that list.
C15_DispatchExcludesRegistration ==
    /\ ~(pc["gn"] = "gn_hooks" /\ Appending("remoteNodeReady"))
    /\ \A t \in Threads :
          ~(pc[t] = "stop_hooks" /\ Appending("remoteNodeDisconnected"))

\* loop t begins an iteration
AtTop(t) == pc[t] = (IF t = "rx" THEN "rx_top" ELSE IF t = "tx" THEN "tx_top" ELSE "hm_top")

\* C16: once Stop has set the stopped state of a started connection, each of
\* rx, tx and the dispatch loop eventually returns; a loop that begins an
\* iteration in the stopped state does nothing but return, and rx goes from
\* its failed read, through its Stop call, to the beginning of an iteration.
C16_LoopsTerminateAfterStop ==
    /\ [][\A t \in Loops :
             AtTop(t) /\ isStopped /\ pc'[t] # pc[t] =>
                 /\ pc'[t] = "done"
                 /\ UNCHANGED <<connVars, codecVars, chanVars, lnChan>>]_vars
    /\ [](pc["rx"] \in {"stop_call", "stop_close", "stop_hooks"}
             => ioErr["rx"] /\ ret["rx"] = "rx_top")
    /\ isStopped ~> (\A t \in Loops : pc[t] = "done")

\* the idle timer stopped the connection; the read and a write failed on
\* the closed conn, and the three loops have returned
C16_TimedOutAllReturned ==
    /\ stopCause = "keepalive timeout"
    /\ stopOnce = "done"
    /\ \A t \in Loops : pc[t] = "done"
    /\ ioErr["rx"] /\ ioErr["tx"]
    /\ idleTimer = TimerOff /\ kaTimer = TimerOff

\* C17: when the connection was stopped while tx and the dispatch loop were
\* blocked in their select with nothing to take, and an envelope comes to
\* the outbound queue and one to the inbound queue afterwards, the loops wake
\* without effect: tx writes nothing to the stream, and the dispatch loop
\* forwards nothing to the LocalNode's delivery queues.
C17_StoppedLoopsWakeWithoutEffect ==
    [][isStopped => connOut' = connOut /\ lnChan' = lnChan]_vars

\* the envelopes that SendMessage calls of the send API placed on the
\* outbound queue, the keep-alive pings of tx left out
PlacedByCallers == SelectSeq(enqueued, LAMBDA m : m # PingMsg)

\* the one call of t has returned an error
ReturnedError(t) == pc[t] = "s_idle" /\ sendRes[t] \in {"full", "dup"}

\* the one call of t is past its send to the queue, and has not returned an
\* error
PlacedOrPlacing(t) ==
    \/ pc[t] \in {"send_alloc", "sync_wait"}
    \/ pc[t] = "s_idle" /\ sendRes[t] \in {"ok", "chan", "reply", "timeout"}

\* C18: a SendMessage call that returned an error, the queue-full error or
\* the error of a reply slot already outstanding for the id, has placed no
\* envelope on the outbound queue: while every caller has made at most one
\* call, the envelopes placed by callers are as many as the calls that went
\* past the send to the queue and did not return an error.
C18_ErrorMeansNotEnqueued ==
    (\A t \in Senders : calls[t] <= 1) =>
        Len(PlacedByCallers) = Cardinality({t \in Senders : PlacedOrPlacing(t)})

\* the envelope of t's call has been written to the stream, the header at
\* least
OnStream(t) ==
    \/ \E i \in 1..Len(TxWritten) : TxWritten[i] = op[t].msg
    \/ pc["tx"] = "tx_write2" /\ txCur = op[t].msg

\* C19: while a call that expects a reply has not yet registered the reply
\* slot of its envelope and no slot exists for the envelope's id, the
\* envelope, the only one callers have placed, is not on the stream.
C19_SlotBeforeVisible ==
    \A t \in Senders :
        /\ op[t].kind # "async"
        /\ pc[t] = "send_alloc"
        /\ replyChans[op[t].msg.MessageId] = NoSlot
        /\ Len(PlacedByCallers) = 1
        => ~OnStream(t)

\* C20: every invocation of a peer-ready hook happens while no
\* peer-disconnected hook has been invoked yet.
C20_ReadyBeforeDisconnected ==
    [][hookLog'["remoteNodeReady"] # hookLog["remoteNodeReady"]
          => hookLog["remoteNodeDisconnected"] = <<>>]_vars

====
